---- MODULE Spec2Model ----
(***************************************************************************)
(* flake8-strict: the violation scanner of src/flake8_strict.py over the   *)
(* lib2to3 concrete syntax tree, the flake8 plugin entry point and the     *)
(* command-line run over a list of files.                                  *)
(***************************************************************************)
EXTENDS Integers, Sequences, FiniteSets, TLC

VARIABLES
    tree,        \* Flake8Checker: the tree lib2to3 parsed from the file
    pc,          \* Flake8Checker.run: "parsed", "done" or "raised"
    reported,    \* Flake8Checker.run: the tuples yielded to flake8 so far
    exc,         \* Flake8Checker.run: the exception that ended it, or NoExc
    argc,        \* __main__: len(sys.argv[1:])
    contents,    \* __main__: what each file processed so far held
    exit_code,   \* __main__: the exit_code local
    printed,     \* __main__: the lines printed so far
    status,      \* __main__: "running", "exited" or "crashed"
    process_status   \* __main__: the status the process ended with, or None

vars == <<tree, pc, reported, exc, argc, contents, exit_code, printed, status, process_status>>

scanVars == <<tree, pc, reported, exc>>

mainVars == <<argc, contents, exit_code, printed, status, process_status>>

-----------------------------------------------------------------------------
(* Bounds of the model.                                                    *)

\* Leaves of one bracketed construct of a scanned file, brackets included.
MaxLeaves == 7

\* Leaves of the two constructs of a file of two statements, together.
PairLeaves == 6

\* Line breaks inside the brackets of one construct.
MaxBreaks == 2

\* Leaves of one construct of a file of the command-line run.
MainLeaves == 3

\* Files on the command line.
MaxFiles == 2

-----------------------------------------------------------------------------
(* lib2to3 trees: pytree.Leaf and pytree.Node.                             *)

\* Python's None: get_lineno() and _get_column() of a childless Node.
None == -1

NoExc == "none"

COMMA == "COMMA"

STAR == "STAR"

DOUBLESTAR == "DOUBLESTAR"

S100 == "S100"

S101 == "S101"

\* ErrorCode.value of an ErrorCode member.
ErrorCode(name) ==
    IF name = S100 THEN "First argument on the same line"
    ELSE "Multi-line construct missing trailing comma"

\* pytree.Leaf(type, value) at (lineno, column); Base.children is ().
Leaf(type, value, lineno, column) ==
    [leaf |-> TRUE, type |-> type, value |-> value, lineno |-> lineno,
     column |-> column, children |-> <<>>]

\* pytree.Node(type, children): it has no value, lineno or column of its own.
Node(type, children) ==
    [leaf |-> FALSE, type |-> type, value |-> "", lineno |-> None,
     column |-> None, children |-> children]

\* A token before the source positions are assigned.
Tok(type, value) == Leaf(type, value, 0, 0)

RECURSIVE LeafCount(_)
\* The number of leaves of a tree.
LeafCount(n) ==
    IF n.leaf THEN 1
    ELSE IF n.children = <<>> THEN 0
    ELSE LeafCount(Head(n.children)) + LeafCount(Node(n.type, Tail(n.children)))

\* pytree.convert: a production with a single child is replaced by the child.
Convert(type, children) ==
    IF Len(children) = 1 THEN children[1] ELSE Node(type, children)

Name == Tok("NAME", "a")

Comma == Tok(COMMA, ",")

\* comp_for: 'for' exprlist 'in' testlist_safe
CompFor ==
    Node("comp_for", <<Tok("NAME", "for"), Name, Tok("NAME", "in"), Name>>)

\* atom: STRING+ with three strings.
Strings ==
    Node("atom", <<Tok("STRING", "'s'"), Tok("STRING", "'s'"), Tok("STRING", "'s'")>>)

Brackets ==
    { <<Tok("LPAR", "("), Tok("RPAR", ")"), "testlist_gexp">>,
      <<Tok("LSQB", "["), Tok("RSQB", "]"), "listmaker">>,
      <<Tok("LBRACE", "{"), Tok("RBRACE", "}"), "dictsetmaker">> }

RECURSIVE Atoms(_), Items(_), ItemSeqs(_, _), Lists(_, _), Makers(_, _)

\* One element of a literal, a subscript or a call with at most b leaves.
Items(b) ==
    (IF b >= 1 THEN {Name} ELSE {})
    \cup (IF b >= 3 THEN {Strings} ELSE {})
    \cup Atoms(b)

\* The children of a comma-separated list with at most b leaves, drawn from
\* the elements E, with or without a trailing comma.
ItemSeqs(E, b) ==
    IF b < 1 THEN {}
    ELSE { <<e>> : e \in {x \in E : LeafCount(x) <= b} }
         \cup { <<e, Comma>> : e \in {x \in E : LeafCount(x) <= b - 1} }
         \cup UNION { { <<e, Comma>> \o r : r \in ItemSeqs(E, b - 1 - LeafCount(e)) }
                      : e \in {x \in E : LeafCount(x) <= b - 2} }

\* What stands between the brackets of a subscript, or of a literal that is
\* no comprehension.
Lists(type, b) == { Convert(type, s) : s \in ItemSeqs(Items(b), b) }

\* What stands between the brackets of a literal.
Makers(type, b) ==
    Lists(type, b) \cup (IF b >= 5 THEN {Node(type, <<Name, CompFor>>)} ELSE {})

\* atom: '(' [testlist_gexp] ')' | '[' [listmaker] ']' | '{' [dictsetmaker] '}'
Atoms(b) ==
    IF b < 2 THEN {}
    ELSE UNION { { Node("atom", <<br[1], br[2]>>) }
                 \cup { Node("atom", <<br[1], m, br[2]>>) : m \in Makers(br[3], b - 2) }
                 : br \in Brackets }

\* argument: '*' test | '**' test
StarArgs ==
    { Node("argument", <<Tok(STAR, "*"), Name>>),
      Node("argument", <<Tok(DOUBLESTAR, "**"), Name>>) }

\* trailer: '(' [arglist] ')' | '[' subscriptlist ']' | '.' NAME
Trailers(b) ==
    { Node("trailer", <<Tok("DOT", "."), Name>>),
      Node("trailer", <<Tok("LPAR", "("), Tok("RPAR", ")")>>) }
    \cup { Node("trailer", <<Tok("LPAR", "("), Convert("arglist", s), Tok("RPAR", ")")>>)
           : s \in ItemSeqs(Items(b - 2) \cup StarArgs, b - 2) }
    \cup (IF b >= 7
          THEN {Node("trailer", <<Tok("LPAR", "("), Node("argument", <<Name, CompFor>>),
                                  Tok("RPAR", ")")>>)}
          ELSE {})
    \cup { Node("trailer", <<Tok("LSQB", "["), m, Tok("RSQB", "]")>>)
           : m \in Lists("subscriptlist", b - 2) }

RECURSIVE ParamSeqs(_, _)
\* typedargslist: names and bare '*' / '**' markers, flat, comma-separated;
\* one '*' parameter at most (star tells that it may still come), and a '**'
\* parameter only as the last one.
ParamSeqs(star, b) ==
    LET More == { <<Name>> } \cup (IF star THEN { <<Tok(STAR, "*"), Name>> } ELSE {})
        P == More \cup { <<Tok(DOUBLESTAR, "**"), Name>> }
    IN  IF b < 1 THEN {}
        ELSE { p : p \in {x \in P : Len(x) <= b} }
             \cup { p \o <<Comma>> : p \in {x \in P : Len(x) <= b - 1} }
             \cup UNION { { p \o <<Comma>> \o r
                            : r \in ParamSeqs(star /\ Len(p) = 1, b - 1 - Len(p)) }
                          : p \in {x \in More : Len(x) <= b - 2} }

\* parameters: '(' [typedargslist] ')'
Parameters(b) ==
    { Node("parameters", <<Tok("LPAR", "("), Tok("RPAR", ")")>>) }
    \cup { Node("parameters", <<Tok("LPAR", "("), Convert("typedargslist", s),
                                Tok("RPAR", ")")>>)
           : s \in ParamSeqs(TRUE, b - 2) }

\* The source position of the k-th leaf of a file whose line breaks stand
\* before the leaves brk; every token is one column wide.
LineOf(k, brk) == 1 + Cardinality({j \in brk : j <= k})

ColumnOf(k, brk) ==
    LET starts == {j \in brk : j <= k} \cup {1}
    IN  k - (CHOOSE m \in starts : \A j \in starts : j <= m)

RECURSIVE Place(_, _, _), PlaceSeq(_, _, _)
\* The tree n, whose first leaf is the (k+1)-th of the file, with positions,
\* and the number of leaves up to its last one.
Place(n, k, brk) ==
    IF n.leaf
    THEN [t |-> Leaf(n.type, n.value, LineOf(k + 1, brk), ColumnOf(k + 1, brk)), k |-> k + 1]
    ELSE LET c == PlaceSeq(n.children, k, brk)
         IN  [t |-> Node(n.type, c.t), k |-> c.k]

PlaceSeq(s, k, brk) ==
    IF s = <<>> THEN [t |-> <<>>, k |-> k]
    ELSE LET h == Place(Head(s), k, brk)
             r == PlaceSeq(Tail(s), h.k, brk)
         IN  [t |-> <<h.t>> \o r.t, k |-> r.k]

\* file_input: the statements and the ENDMARKER.
FileInput(stmts) == Node("file_input", stmts \o <<Tok("ENDMARKER", "")>>)

SimpleStmt(expr) == Node("simple_stmt", <<expr, Tok("NEWLINE", "\n")>>)

\* The statements that hold the construct c, with the leaves before c.
DefStmt(c) ==
    [node |-> Node("funcdef", <<Tok("NAME", "def"), Tok("NAME", "f"), c,
                               Tok("COLON", ":"), SimpleStmt(Tok("NAME", "pass"))>>),
     before |-> 2, construct |-> c]

CallStmt(c) ==
    [node |-> SimpleStmt(Node("power", <<Tok("NAME", "f"), c>>)),
     before |-> 1, construct |-> c]

AtomStmt(c) == [node |-> SimpleStmt(c), before |-> 0, construct |-> c]

\* The statements with one construct of at most b leaves.
Stmts(b) ==
    { DefStmt(c) : c \in Parameters(b) }
    \cup { CallStmt(c) : c \in Trailers(b) }
    \cup { AtomStmt(c) : c \in Atoms(b) }

\* Lines break only inside brackets: the leaves of the statement s, itself
\* after k leaves, that may start a line are those after the construct's
\* opening bracket, up to its closing bracket.
Inside(s, k) ==
    IF s.construct.children[1].type = "DOT" THEN {}
    ELSE (k + s.before + 2)..(k + s.before + LeafCount(s.construct))

\* A file of one statement or of two: every statement after the first and
\* the ENDMARKER start a line.
OneStmt(s) ==
    [root |-> FileInput(<<s.node>>),
     inside |-> Inside(s, 0),
     forced |-> {LeafCount(s.node) + 1}]

TwoStmts(s, t) ==
    [root |-> FileInput(<<s.node, t.node>>),
     inside |-> Inside(s, 0) \cup Inside(t, LeafCount(s.node)),
     forced |-> {LeafCount(s.node) + 1, LeafCount(s.node) + LeafCount(t.node) + 1}]

\* The files of one statement whose construct has at most b leaves, and of
\* two statements whose constructs have at most p leaves together.
Files(b, p) ==
    { OneStmt(s) : s \in Stmts(b) }
    \cup UNION { { TwoStmts(s, t) : t \in Stmts(p - LeafCount(s.construct)) }
                 : s \in Stmts(p - 2) }

\* The layouts of the file f: the sets of leaves that start a line.
Breaks(f) ==
    { X \cup f.forced : X \in {Y \in SUBSET f.inside : Cardinality(Y) <= MaxBreaks} }

\* _driver.parse_string of the file f laid out with the line breaks brk.
parse_string(f, brk) == Place(f.root, 0, brk).t

SourceFiles == Files(MaxLeaves, PairLeaves)

MainFiles == Files(MainLeaves, MainLeaves)

-----------------------------------------------------------------------------
(* The scanner.  A generator's outcome is what it yielded and the         *)
(* exception that ended it, NoExc when it returned.                        *)

Yielded(out) == [out |-> out, exc |-> NoExc]

Raised(out, e) == [out |-> out, exc |-> e]

RECURSIVE get_lineno(_)
\* pytree.Base.get_lineno: the line of the first leaf, None without one.
get_lineno(node) ==
    IF node.leaf THEN node.lineno
    ELSE IF node.children = <<>> THEN None
    ELSE get_lineno(node.children[1])

RECURSIVE _get_column(_)
_get_column(node) ==
    IF node.leaf THEN node.column
    ELSE IF node.children = <<>> THEN None
    ELSE _get_column(node.children[1])

_error(element, error_code) ==
    <<get_lineno(element), _get_column(element), error_code>>

\* _is_multi_line with "> 0" for "> 1".
_is_multi_line_any(t) ==
    Cardinality({ get_lineno(t.children[i]) : i \in 1..Len(t.children) }) > 0

_is_multi_line(t) ==
    Cardinality({ get_lineno(t.children[i]) : i \in 1..Len(t.children) }) > 1

\* _process_parameters with token.DOUBLESTAR left out of the variadic test.
_process_parameters_star_only(parameters) ==
    IF ~_is_multi_line(parameters) THEN Yielded(<<>>)
    ELSE IF Len(parameters.children) # 3 THEN Raised(<<>>, "ValueError")
    ELSE
        LET open_parenthesis == parameters.children[1]
            args_list == parameters.children[2]
            elements == args_list.children
            first_element == elements[1]
            last_element == elements[Len(elements)]
            no_variadic_arguments ==
                \A i \in 1..Len(elements) : elements[i].type \notin {STAR}
            first ==
                IF open_parenthesis.lineno = get_lineno(first_element)
                THEN <<_error(first_element, S100)>>
                ELSE <<>>
            last ==
                IF last_element.type # COMMA /\ no_variadic_arguments
                THEN <<_error(last_element, S101)>>
                ELSE <<>>
        IN  IF elements = <<>> THEN Yielded(<<>>)
            ELSE IF ~open_parenthesis.leaf THEN Raised(<<>>, "AttributeError")
            ELSE Yielded(first \o last)

_process_parameters(parameters) ==
    IF ~_is_multi_line(parameters) THEN Yielded(<<>>)
    ELSE IF Len(parameters.children) # 3 THEN Raised(<<>>, "ValueError")
    ELSE
        LET open_parenthesis == parameters.children[1]
            args_list == parameters.children[2]
            elements == args_list.children
            first_element == elements[1]
            last_element == elements[Len(elements)]
            no_variadic_arguments ==
                \A i \in 1..Len(elements) : elements[i].type \notin {STAR, DOUBLESTAR}
            first ==
                IF open_parenthesis.lineno = get_lineno(first_element)
                THEN <<_error(first_element, S100)>>
                ELSE <<>>
            last ==
                IF last_element.type # COMMA /\ no_variadic_arguments
                THEN <<_error(last_element, S101)>>
                ELSE <<>>
        IN  IF elements = <<>> THEN Yielded(<<>>)
            ELSE IF ~open_parenthesis.leaf THEN Raised(<<>>, "AttributeError")
            ELSE Yielded(first \o last)

\* _process_atom without the comprehension exemption.
_process_atom_strict(atom) ==
    IF Len(atom.children) < 3 \/ ~_is_multi_line(atom) THEN Yielded(<<>>)
    ELSE
        LET left == atom.children[1]
            open_parenthesis == atom.children[1]
            maker == atom.children[2]
            last_maker_element ==
                IF maker.children # <<>> THEN maker.children[Len(maker.children)]
                ELSE maker
            has_comprehension_inside ==
                \E i \in 1..Len(maker.children) : maker.children[i].type = "comp_for"
            first ==
                IF open_parenthesis.lineno = get_lineno(maker)
                THEN <<_error(maker, S100)>>
                ELSE <<>>
            last ==
                IF last_maker_element.type # COMMA
                THEN <<_error(last_maker_element, S101)>>
                ELSE <<>>
        IN  IF ~left.leaf THEN Raised(<<>>, "AttributeError")
            ELSE IF left.value \notin {"{", "["} THEN Yielded(<<>>)
            ELSE IF Len(atom.children) # 3 THEN Raised(<<>>, "ValueError")
            ELSE Yielded(first \o last)

_process_atom(atom) ==
    IF Len(atom.children) < 3 \/ ~_is_multi_line(atom) THEN Yielded(<<>>)
    ELSE
        LET left == atom.children[1]
            open_parenthesis == atom.children[1]
            maker == atom.children[2]
            last_maker_element ==
                IF maker.children # <<>> THEN maker.children[Len(maker.children)]
                ELSE maker
            has_comprehension_inside ==
                \E i \in 1..Len(maker.children) : maker.children[i].type = "comp_for"
            first ==
                IF open_parenthesis.lineno = get_lineno(maker)
                THEN <<_error(maker, S100)>>
                ELSE <<>>
            last ==
                IF last_maker_element.type # COMMA /\ ~has_comprehension_inside
                THEN <<_error(last_maker_element, S101)>>
                ELSE <<>>
        IN  IF ~left.leaf THEN Raised(<<>>, "AttributeError")
            ELSE IF left.value \notin {"{", "["} THEN Yielded(<<>>)
            ELSE IF Len(atom.children) # 3 THEN Raised(<<>>, "ValueError")
            ELSE Yielded(first \o last)

_process_trailer(trailer) ==
    LET children == trailer.children
    IN  IF Len(children) = 3
        THEN IF children[2].type = "atom"
             THEN _process_atom(children[2])
             ELSE _process_parameters(trailer)
        ELSE Yielded(<<>>)

RECURSIVE chain_from_iterable(_)
\* itertools.chain.from_iterable, consumed to its end: the iterables in
\* order, up to the first one that raises.
chain_from_iterable(iterables) ==
    IF iterables = <<>> THEN Yielded(<<>>)
    ELSE IF Head(iterables).exc # NoExc THEN Head(iterables)
    ELSE LET rest == chain_from_iterable(Tail(iterables))
         IN  Raised(Head(iterables).out \o rest.out, rest.exc)

\* The check _process_tree runs at the node itself.
NodeCheck(t) ==
    IF t.type = "parameters" THEN <<_process_parameters(t)>>
    ELSE IF t.type = "trailer" THEN <<_process_trailer(t)>>
    ELSE IF t.type = "atom" THEN <<_process_atom(t)>>
    ELSE <<>>

RECURSIVE _process_tree(_)
_process_tree(t) ==
    chain_from_iterable(
        NodeCheck(t) \o [i \in 1..Len(t.children) |-> _process_tree(t.children[i])])

-----------------------------------------------------------------------------
(* Flake8Checker: the flake8 plugin over one file.                         *)

\* The tuple run() yields for an error, without the checker's type.
Flake8Error(e) == <<e[1], e[2], <<e[3], ErrorCode(e[3])>>>>

\* Flake8Checker.run, consumed by flake8: every error up to the end of the
\* scan or to the exception that ends it.
run ==
    /\ pc = "parsed"
    /\ LET r == _process_tree(tree)
       IN  /\ reported' = [i \in 1..Len(r.out) |-> Flake8Error(r.out[i])]
           /\ exc' = r.exc
           /\ pc' = IF r.exc = NoExc THEN "done" ELSE "raised"
    /\ UNCHANGED <<tree, mainVars>>

MainIdle ==
    /\ argc = 0
    /\ contents = <<>>
    /\ exit_code = 0
    /\ printed = <<>>
    /\ status = "idle"
    /\ process_status = None

\* Flake8Checker(tree, filename) over one of the source files.
Init ==
    /\ \E f \in SourceFiles : \E brk \in Breaks(f) : tree = parse_string(f, brk)
    /\ pc = "parsed"
    /\ reported = <<>>
    /\ exc = NoExc
    /\ MainIdle

Next == run

Spec == Init /\ [][Next]_vars

-----------------------------------------------------------------------------
(* __main__: the command-line run over sys.argv[1:].                       *)

\* What a file holds: source lib2to3 parses to a tree, or source it rejects.
Parsable(t) == [parsable |-> TRUE, tree |-> t]

Unparsable == [parsable |-> FALSE, tree |-> Node("file_input", <<>>)]

\* _driver.parse_string raises ParseError on source it rejects.
_process_code(code) ==
    IF code.parsable THEN _process_tree(code.tree) ELSE Raised(<<>>, "ParseError")

_process_file(code) == _process_code(code)

\* The line printed for an error of the file named filename.
PrintedLine(filename, e) == <<filename, e[1], e[2], e[3], ErrorCode(e[3])>>

\* One turn of the loop over sys.argv[1:], on a file that holds code: an
\* exception out of list(_process_file(filename)) ends the process with a
\* traceback and status 1.
Turn(code) ==
    LET filename == Len(contents) + 1
        r == _process_file(code)
    IN  /\ contents' = Append(contents, code)
        /\ IF r.exc # NoExc
           THEN /\ status' = "crashed"
                /\ process_status' = 1
                /\ UNCHANGED <<exit_code, printed>>
           ELSE /\ exit_code' = IF r.out # <<>> THEN 1 ELSE exit_code
                /\ printed' = printed \o [i \in 1..Len(r.out) |-> PrintedLine(filename, r.out[i])]
                /\ UNCHANGED <<status, process_status>>

ProcessFile ==
    /\ status = "running"
    /\ Len(contents) < argc
    /\ \E f \in MainFiles : \E brk \in Breaks(f) : Turn(Parsable(parse_string(f, brk)))
    /\ UNCHANGED <<argc, scanVars>>

ProcessBadFile ==
    /\ status = "running"
    /\ Len(contents) < argc
    /\ Turn(Unparsable)
    /\ UNCHANGED <<argc, scanVars>>

\* sys.exit(exit_code) after the loop.
Exit ==
    /\ status = "running"
    /\ Len(contents) = argc
    /\ status' = "exited"
    /\ process_status' = exit_code
    /\ UNCHANGED <<argc, contents, exit_code, printed, scanVars>>

MainInit ==
    /\ argc \in 0..MaxFiles
    /\ contents = <<>>
    /\ exit_code = 0
    /\ printed = <<>>
    /\ status = "running"
    /\ process_status = None
    /\ tree = Node("file_input", <<>>)
    /\ pc = "idle"
    /\ reported = <<>>
    /\ exc = NoExc

MainNext == ProcessFile \/ ProcessBadFile \/ Exit

SpecMain == MainInit /\ [][MainNext]_vars

-----------------------------------------------------------------------------
(* The vocabulary of the specification: firstLine, column, multi-line.     *)

RECURSIVE Nodes(_)
\* Every node of the tree t, t included.
Nodes(t) == {t} \cup UNION { Nodes(t.children[i]) : i \in 1..Len(t.children) }

RECURSIVE FirstLine(_)
FirstLine(n) ==
    IF n.children = <<>> THEN n.lineno ELSE FirstLine(Head(n.children))

RECURSIVE Column(_)
Column(n) ==
    IF n.children = <<>> THEN n.column ELSE Column(Head(n.children))

MultiLine(n) ==
    \E i, j \in 1..Len(n.children) :
        FirstLine(n.children[i]) # FirstLine(n.children[j])

Checked(n) == n.type \in {"parameters", "trailer", "atom"}

\* What the check run at the node n yielded, and how it ended.
Emitted(n) == chain_from_iterable(NodeCheck(n))

\* The entries of the sequence out that carry the code.
Entries(out, code) == { i \in 1..Len(out) : out[i][3] = code }

\* The code is emitted once, at the first line and column of the element.
EmittedAt(out, code, element) ==
    /\ Cardinality(Entries(out, code)) = 1
    /\ \A i \in Entries(out, code) :
           out[i] = <<FirstLine(element), Column(element), code>>

RECURSIVE PreOrder(_), PreOrderSeq(_)
\* The nodes of the tree, a node before its children, the children in order.
PreOrder(t) == <<t>> \o PreOrderSeq(t.children)

PreOrderSeq(s) ==
    IF s = <<>> THEN <<>> ELSE PreOrder(Head(s)) \o PreOrderSeq(Tail(s))

RECURSIVE EmittedBy(_)
\* The violations of the nodes of a sequence, in its order.
EmittedBy(nodes) ==
    IF nodes = <<>> THEN <<>>
    ELSE Emitted(Head(nodes)).out \o EmittedBy(Tail(nodes))

Finished == pc \in {"done", "raised"}

\* The entry of reported for a violation.
Reports(e) == \E i \in 1..Len(reported) : reported[i] = Flake8Error(e)

-----------------------------------------------------------------------------
(* C1 *)

\* C1: the scan, fully consumed, never raises: on every tree the provider
\* can produce, a multi-line 'parameters' node of two brackets included, it
\* ends normally.
C1_ScanNeverRaises == Finished => pc = "done" /\ exc = NoExc

-----------------------------------------------------------------------------
(* C2 *)

\* A multi-line parameter list: a 'parameters' node, or a three-child
\* 'trailer' whose middle is no atom, with a non-empty element sequence.
ParameterList(n) ==
    /\ \/ n.type = "parameters"
       \/ n.type = "trailer" /\ Len(n.children) = 3 /\ n.children[2].type # "atom"
    /\ Len(n.children) = 3
    /\ MultiLine(n)
    /\ n.children[2].children # <<>>

Elements(n) == n.children[2].children

LastElement(n) == Elements(n)[Len(Elements(n))]

HasVariadicMarker(n) ==
    \E i \in 1..Len(Elements(n)) : Elements(n)[i].value \in {"*", "**"} /\ Elements(n)[i].leaf

MissingComma(n) == LastElement(n).value # "," /\ ~HasVariadicMarker(n)

\* C2: the check at a multi-line parameter list with a non-empty element
\* sequence emits S101 exactly when the last element is no comma and no
\* element is a bare '*' or '**'; it emits it once, at the first line and
\* column of the last element, and the finished scan reports it.
C2_ParameterListS101 ==
    \A n \in Nodes(tree) :
        ParameterList(n) =>
            /\ Emitted(n).exc = NoExc
            /\ (Entries(Emitted(n).out, S101) # {}) <=> MissingComma(n)
            /\ MissingComma(n) =>
                   /\ EmittedAt(Emitted(n).out, S101, LastElement(n))
                   /\ pc = "done" =>
                          Reports(<<FirstLine(LastElement(n)), Column(LastElement(n)), S101>>)

\* A scanned multi-line parameter list that misses its trailing comma,
\* with the S101 of its last element reported.
C2_Witness ==
    /\ pc = "done"
    /\ \E n \in Nodes(tree) :
           /\ ParameterList(n)
           /\ MissingComma(n)
           /\ Reports(<<FirstLine(LastElement(n)), Column(LastElement(n)), S101>>)

-----------------------------------------------------------------------------
(* C3 *)

\* A multi-line parameter list or call/subscript trailer that encloses at
\* least one element and goes to the parameter-list check: three children,
\* the enclosed ones in the middle, the middle no atom.
Enclosing(n) ==
    /\ \/ n.type = "parameters"
       \/ n.type = "trailer" /\ n.children[2].type # "atom"
    /\ Len(n.children) = 3
    /\ MultiLine(n)

\* C3: the check at a multi-line parameter list or trailer that encloses at
\* least one element, a single one included, emits S100 exactly when the
\* opening bracket's line is the first line of the first enclosed element,
\* once and at that element's first line and column, before any S101.
C3_FirstArgumentS100 ==
    \A n \in Nodes(tree) :
        Finished /\ Enclosing(n) =>
            LET out == Emitted(n).out
                first == n.children[2]
                same == n.children[1].lineno = FirstLine(first)
            IN  /\ (Entries(out, S100) # {}) <=> same
                /\ same => EmittedAt(out, S100, first)
                /\ \A i \in Entries(out, S100) : \A j \in Entries(out, S101) : i < j

-----------------------------------------------------------------------------
(* C4 *)

\* A multi-line atom of at least three children that opens with '[' or '{'.
Literal(n) ==
    /\ n.type = "atom"
    /\ Len(n.children) >= 3
    /\ MultiLine(n)
    /\ n.children[1].value \in {"[", "{"}

Contents(n) == n.children[2]

LastLogical(n) ==
    IF Contents(n).children # <<>>
    THEN Contents(n).children[Len(Contents(n).children)]
    ELSE Contents(n)

Comprehension(n) ==
    \E c \in Nodes(Contents(n)) :
        /\ c.type = "comp_for"
        /\ \E i \in 1..Len(Contents(n).children) : Contents(n).children[i] = c

LiteralMissingComma(n) == ~Comprehension(n) /\ LastLogical(n).value # ","

\* C4: the atom check at a multi-line '[' or '{' atom of at least three
\* children emits S101 exactly when the contents hold no comprehension
\* clause and the last logical element is no comma, once and at that
\* element's first line and column; an atom that opens with any other text
\* emits nothing.
C4_AtomS101 ==
    \A n \in Nodes(tree) :
        /\ Literal(n) =>
               /\ _process_atom(n).exc = NoExc
               /\ (Entries(_process_atom(n).out, S101) # {}) <=> LiteralMissingComma(n)
               /\ LiteralMissingComma(n) =>
                      /\ EmittedAt(_process_atom(n).out, S101, LastLogical(n))
                      /\ pc = "done" =>
                             Reports(<<FirstLine(LastLogical(n)), Column(LastLogical(n)), S101>>)
        /\ n.type = "atom" /\ n.children[1].value \notin {"[", "{"} =>
               _process_atom(n) = Yielded(<<>>)

\* A scanned multi-line list or set literal that misses its trailing comma,
\* with the S101 of its last element reported.
C4_Witness ==
    /\ pc = "done"
    /\ \E n \in Nodes(tree) :
           /\ Literal(n)
           /\ LiteralMissingComma(n)
           /\ Len(Contents(n).children) >= 3
           /\ Reports(<<FirstLine(LastLogical(n)), Column(LastLogical(n)), S101>>)

-----------------------------------------------------------------------------
(* C5 *)

\* C5: the check at a 'parameters', 'trailer' or 'atom' node whose children
\* all stand on one line emits nothing and does not fail.
C5_SingleLine ==
    \A n \in Nodes(tree) :
        Checked(n) /\ ~MultiLine(n) => Emitted(n) = Yielded(<<>>)

\* A scanned file with a single-line parameter list of several elements and
\* no trailing comma.
C5_Witness ==
    /\ pc = "done"
    /\ \E n \in Nodes(tree) :
           /\ Checked(n)
           /\ ~MultiLine(n)
           /\ Len(n.children) = 3
           /\ Len(n.children[2].children) >= 3
           /\ n.children[2].children[Len(n.children[2].children)].value # ","

-----------------------------------------------------------------------------
(* C6 *)

\* A multi-line bracketed construct with nothing between its brackets.
EmptyMultiLine(n) ==
    /\ Checked(n)
    /\ Len(n.children) = 2
    /\ n.children[1].value \in {"(", "[", "{"}
    /\ MultiLine(n)

\* C6: an empty multi-line parameter list, trailer or atom makes its check
\* emit nothing, and the scan of its file ends normally.
C6_EmptyCollection ==
    \A n \in Nodes(tree) :
        Finished /\ EmptyMultiLine(n) =>
            /\ Emitted(n) = Yielded(<<>>)
            /\ pc = "done"

-----------------------------------------------------------------------------
(* C7 *)

\* C7: the result of the scan is the violations of every node of the tree,
\* a node's own before those of its children, the children in order.
C7_PreOrderResult ==
    Finished =>
        LET expected == EmittedBy(PreOrder(tree))
        IN  reported = [i \in 1..Len(expected) |-> Flake8Error(expected[i])]

-----------------------------------------------------------------------------
(* C10 *)

\* C10: the result of a scan holds no (line, column, code) entry twice.
C10_NoDoubleReport ==
    Finished =>
        \A i, j \in 1..Len(reported) : reported[i] = reported[j] => i = j

-----------------------------------------------------------------------------
(* C8, C9: the command-line run.                                           *)

Ended == status \in {"exited", "crashed"}

RECURSIVE LinesOf(_, _)
\* The lines of the violations of the files s, the first of them named k.
LinesOf(s, k) ==
    IF s = <<>> THEN <<>>
    ELSE LET found == EmittedBy(PreOrder(Head(s).tree))
         IN  [i \in 1..Len(found) |-> PrintedLine(k, found[i])] \o LinesOf(Tail(s), k + 1)

\* C8: when a run over files that all parse has ended, the process status
\* is non-zero exactly when some file held a violation, and the violations
\* of every file are printed, in file order.
C8_ExitStatus ==
    Ended /\ (\A k \in 1..Len(contents) : contents[k].parsable) =>
        /\ process_status # 0 <=> LinesOf(contents, 1) # <<>>
        /\ printed = LinesOf(contents, 1)

\* C9: a run ends only when every file of the command line was scanned: a
\* file that fails does not keep the later ones from being scanned.
C9_FailureIsolation == Ended => Len(contents) = argc

====
